---- MODULE Spec2Model ----
(***************************************************************************)
(* Authentication and session-token subsystem of jif-tube-back:            *)
(* AuthService (register / authenticate / refresh_tokens / logout /        *)
(* verify_access_token), JWTHandler, the route guards and the TTL cache    *)
(* that holds the revocation markers.                                      *)
(*                                                                         *)
(* Time is counted in minutes.  A token is a claim set plus a MAC; the MAC *)
(* records the key and the claim set it was computed over, so a token      *)
(* verifies exactly when it was signed with the server key over the claims *)
(* it carries (python-jose's encode/decode seen as a signed envelope).     *)
(*                                                                         *)
(* refresh_tokens and logout run as requests in slots, one database round  *)
(* trip per step, so that requests interleave and may stop between steps.  *)
(*                                                                         *)
(* Spec      the session life cycle of the account created at startup:     *)
(*           login, rotation, logout, the guard, the lifespan cache        *)
(*           cleanup, the activation flag and the clock up to the lapse    *)
(*           of tokens and markers.                                        *)
(* SpecUsers registration and several accounts, with clients that also     *)
(*           present altered, re-signed and malformed tokens; the clock    *)
(*           around the expiry of the first access tokens.                 *)
(* SpecMaint sessions next to the search cache and the cache maintenance   *)
(*           methods no route calls (CacheRepository.invalidate /          *)
(*           invalidate_all, CacheService.invalidate_pattern).             *)
(* SpecForge one account and clients that present altered, re-signed and   *)
(*           malformed tokens to refresh, logout and the guard; the clock  *)
(*           around the expiry of the first access and refresh tokens.     *)
(* SpecRace  one worker more than MaxReq: registrations and rotations      *)
(*           step by step next to each other.                              *)
(* SpecGuards    every route guard, with the role and the activation flag  *)
(*           of the accounts changing between requests.                    *)
(* SpecValidate  register requests whose bodies pass or fail UserCreate.   *)
(* SpecAccounts  accounts renamed, deleted and registered again, next to   *)
(*           logins and rotations.                                         *)
(* SpecSessions  one account switched off and on, with rotations and       *)
(*           logouts refused at each point they can be refused at.         *)
(* SpecCache     the cache table on its own: set, get and cleanup_expired  *)
(*           step by step; SpecCacheLive adds weak fairness of the passes  *)
(*           of a cleanup that has started.                                *)
(* SpecLibrary   LibraryRepository.add and remove step by step, one worker *)
(*           more than MaxReq.                                             *)
(* SpecHistory   SearchRepository.log_search for the accounts over time.   *)
(* SpecSearch    GET /search with and without an access token.             *)
(*                                                                         *)
(* user_library and search_history are the tables of the same names.       *)
(*                                                                         *)
(* origin and marked are history variables: where each token came from,    *)
(* and the markers that were committed and by which operation.             *)
(***************************************************************************)
EXTENDS Integers, Sequences, FiniteSets, TLC

VARIABLES users, cache, issued, origin, marked, clock, slots, resp,
          user_library, search_history

vars ==
    <<users, cache, issued, origin, marked, clock, slots, resp, user_library,
      search_history>>

----------------------------------------------------------------------------
(* Bounds of the model *)

\* users that register besides the admin created at startup
MaxUsers == 1
\* token pairs issued (by authenticate and refresh_tokens together)
MaxIssue == 2
\* the calls of log_search per (user, query), and the minutes they spread over
MaxLog == 2
\* instants the clock passes through after the start
MaxClock == 6
\* requests in flight at once
MaxReq == 1

----------------------------------------------------------------------------
(* Program constants *)

ACCESS_TOKEN_EXPIRE_MINUTES == 15
REFRESH_TOKEN_EXPIRE_DAYS == 7
BLACKLIST_BUFFER_MINUTES == 60
SEARCH_CACHE_TTL_MINUTES == 60
SECRET_KEY == "server-secret"
AdminId == "u0"

\* user ids are UUIDs; UuidText is the set of strings uuid.UUID() parses
UserIds == {"u0", "u1", "u2", "u3", "u4", "u5", "u6", "u7"}
UuidText == UserIds
\* what a client may submit as username / email / password
Usernames == {"alice", "u0"}
Emails == {"alice@x.com"}
Passwords == {"Str0ng!Pass", "adminpass", "wrong"}
Queries == {"q"}

\* the value a lookup returns when there is nothing
None == "None"

----------------------------------------------------------------------------
(* Password hasher (app/core/security.py) *)

\* variants: the password stored as it came, any password taken as right
hash_password_Plain(password) == [plain |-> password]

verify_password_Any(plain_password, hashed) == TRUE

hash_password(password) == [argon2 |-> password]

verify_password(plain_password, hashed) == hashed = [argon2 |-> plain_password]

----------------------------------------------------------------------------
(* Credential store (app/repositories/users.py) *)

get_by_id(us, user_id) == {u \in us : u.id = user_id}

get_by_email(us, email) == {u \in us : u.email = email}

\* variant: a lookup that finds nothing
get_by_username_None(us, username) == {}

get_by_username(us, username) == {u \in us : u.username = username}

\* the first row of a non-empty query result
First(rows) == CHOOSE u \in rows : TRUE

\* uuid4 of a new row: an id no row has
NewUserId(us) == CHOOSE i \in UserIds : \A u \in us : u.id # i

AdminUser ==
    [id |-> AdminId, username |-> "admin", email |-> "admin@jiftube.local",
     password_hash |-> hash_password("adminpass"), role |-> "admin",
     is_active |-> TRUE]

----------------------------------------------------------------------------
(* Cache store (app/repositories/cache.py): rows keyed by cache_key *)

\* f"blacklist:{jti}", f"search:{query}:{hash}", and the LIKE patterns over them
\* variant: one key for the markers of all tokens
BlacklistKey_Shared(jti) == [prefix |-> "blacklist", jti |-> 1, name |-> ""]

BlacklistKey(jti) == [prefix |-> "blacklist", jti |-> jti, name |-> ""]

SearchKey(query) == [prefix |-> "search", jti |-> 0, name |-> query]

Patterns == {"%", "search:%", "blacklist:%"}

Like(key, pattern) ==
    \/ pattern = "%"
    \/ pattern = "search:%" /\ key.prefix = "search"
    \/ pattern = "blacklist:%" /\ key.prefix = "blacklist"

\* variant: a row already expired at the instant its lifetime ends
Expired_AtDeadline(entry, t) == t >= entry.timestamp + entry.ttl_minutes

Expired(entry, t) == t > entry.timestamp + entry.ttl_minutes

\* variant: an update that keeps the timestamp of the row it replaces
cache_set_KeepTimestamp(c, key, data, ttl_minutes, t) ==
    {e \in c : e.cache_key # key}
      \cup {[cache_key |-> key, data |-> data,
             timestamp |-> IF \E e \in c : e.cache_key = key
                           THEN (CHOOSE e \in c : e.cache_key = key).timestamp
                           ELSE t,
             ttl_minutes |-> ttl_minutes]}

cache_set(c, key, data, ttl_minutes, t) ==
    {e \in c : e.cache_key # key}
      \cup {[cache_key |-> key, data |-> data, timestamp |-> t,
             ttl_minutes |-> ttl_minutes]}

cache_invalidate(c, key) == {e \in c : e.cache_key # key}

\* variant: a cache that never has the row
cache_get_Miss(c, key, t) == None

\* the value CacheRepository.get returns
cache_get(c, key, t) ==
    LET rows == {e \in c : e.cache_key = key}
    IN  IF rows = {} THEN None
        ELSE LET entry == CHOOSE e \in rows : TRUE
             IN  IF Expired(entry, t) THEN None ELSE entry.data

\* the rows CacheRepository.get leaves: an expired row it read is deleted
cache_after_get(c, key, t) ==
    {e \in c : ~(e.cache_key = key /\ Expired(e, t))}

----------------------------------------------------------------------------
(* JWT handler (app/core/security.py) *)

NoClaims ==
    [sub |-> "", user_id |-> "", username |-> "", scopes |-> <<>>,
     exp |-> 0, iat |-> 0, jti |-> 0, type |-> "none"]

\* HMAC over the claims: equal only for the same key over the same claims
Mac(claims, key) == [key |-> key, over |-> claims]

Encode(claims, key) == [claims |-> claims, mac |-> Mac(claims, key)]

Malformed == [claims |-> NoClaims, mac |-> [key |-> "", over |-> NoClaims]]

\* variant: the signature not looked at
SignatureOk_Unchecked(tok, key) == TRUE

SignatureOk(tok, key) == tok.mac = Mac(tok.claims, key)

\* uuid4 for the jti of the n-th token made from the issued set
FreshJti(iss, n) == Cardinality(iss) + n

\* variant: the refresh lifetime taken in hours
get_token_ttl_minutes_Hours(token_type) ==
    IF token_type = "access" THEN ACCESS_TOKEN_EXPIRE_MINUTES
    ELSE IF token_type = "refresh" THEN REFRESH_TOKEN_EXPIRE_DAYS * 24
    ELSE 0

get_token_ttl_minutes(token_type) ==
    IF token_type = "access" THEN ACCESS_TOKEN_EXPIRE_MINUTES
    ELSE IF token_type = "refresh" THEN REFRESH_TOKEN_EXPIRE_DAYS * 24 * 60
    ELSE 0

\* variant: the refresh token made with the type of an access token
create_refresh_token_AsAccess(user_id, username, scopes, jti, t) ==
    Encode([sub |-> user_id, user_id |-> user_id, username |-> username,
            scopes |-> scopes, exp |-> t + REFRESH_TOKEN_EXPIRE_DAYS * 24 * 60,
            iat |-> t, jti |-> jti, type |-> "access"], SECRET_KEY)

create_access_token(user_id, username, scopes, jti, t) ==
    Encode([sub |-> user_id, user_id |-> user_id, username |-> username,
            scopes |-> scopes, exp |-> t + ACCESS_TOKEN_EXPIRE_MINUTES,
            iat |-> t, jti |-> jti, type |-> "access"], SECRET_KEY)

create_refresh_token(user_id, username, scopes, jti, t) ==
    Encode([sub |-> user_id, user_id |-> user_id, username |-> username,
            scopes |-> scopes, exp |-> t + REFRESH_TOKEN_EXPIRE_DAYS * 24 * 60,
            iat |-> t, jti |-> jti, type |-> "refresh"], SECRET_KEY)

\* variant: the signature not looked at
decode_token_Unsigned(tok, t) ==
    IF tok.claims.exp >= t THEN tok.claims ELSE NoClaims

\* variant: the exp claim not looked at
decode_token_NoExpiry(tok, t) ==
    IF SignatureOk(tok, SECRET_KEY) THEN tok.claims ELSE NoClaims

\* jwt.decode: the claims, or NoClaims on a JWTError (signature, expiry)
decode_token(tok, t) ==
    IF SignatureOk(tok, SECRET_KEY) /\ tok.claims.exp >= t
    THEN tok.claims ELSE NoClaims

\* variant: no marker is ever seen
is_blacklisted_Never(c, jti, t) == FALSE

is_blacklisted(c, jti, t) == cache_get(c, BlacklistKey(jti), t) # None

\* variants: without the blacklist check, without the type check
verify_token_NoRevocation(tok, expected_type, c, t) ==
    LET payload == decode_token(tok, t)
    IN  IF payload = NoClaims THEN NoClaims
        ELSE IF payload.type # expected_type THEN NoClaims
        ELSE payload

verify_token_AnyType(tok, expected_type, c, t) ==
    LET payload == decode_token(tok, t)
    IN  IF payload = NoClaims THEN NoClaims
        ELSE IF payload.jti # 0 /\ is_blacklisted(c, payload.jti, t) THEN NoClaims
        ELSE payload

verify_token(tok, expected_type, c, t) ==
    LET payload == decode_token(tok, t)
    IN  IF payload = NoClaims THEN NoClaims
        ELSE IF payload.type # expected_type THEN NoClaims
        ELSE IF payload.jti # 0 /\ is_blacklisted(c, payload.jti, t) THEN NoClaims
        ELSE payload

\* jwt.decode with verify_exp off: the jti, 0 when there is none
extract_jti(tok) ==
    IF SignatureOk(tok, SECRET_KEY) THEN tok.claims.jti ELSE 0

\* variant: the access token issued just before the token is revoked too
blacklist_token_Pair(c, tok, token_type, t) ==
    LET jti == extract_jti(tok)
        ttl == get_token_ttl_minutes(token_type) + BLACKLIST_BUFFER_MINUTES
    IN  IF jti = 0 THEN c
        ELSE cache_set(cache_set(c, BlacklistKey(jti), "revoked", ttl, t),
                       BlacklistKey(jti - 1), "revoked", ttl, t)

\* the cache after AuthService._blacklist_token commits
blacklist_token(c, tok, token_type, t) ==
    LET jti == extract_jti(tok)
    IN  IF jti = 0 THEN c
        ELSE cache_set(c, BlacklistKey(jti), "revoked",
                       get_token_ttl_minutes(token_type) + BLACKLIST_BUFFER_MINUTES, t)

----------------------------------------------------------------------------
(* What a client can present: the tokens it was given, and what it can make
   of them without the server key *)

Kinds == {"access", "refresh"}

OtherKind(k) == IF k = "access" THEN "refresh" ELSE "access"

\* the payload altered after signing: the type flipped, the expiry pushed out
TamperType(tok) == [tok EXCEPT !.claims.type = OtherKind(@)]

TamperExp(tok) == [tok EXCEPT !.claims.exp = @ + REFRESH_TOKEN_EXPIRE_DAYS * 24 * 60]

\* the same claims signed with a key that is not the server's
Forge(tok) == Encode(tok.claims, "attacker-key")

\* the empty string: no Authorization header
Absent == [claims |-> NoClaims, mac |-> [key |-> "absent", over |-> NoClaims]]

Presentable(iss) ==
    iss \cup {TamperType(t) : t \in iss} \cup {TamperExp(t) : t \in iss}
        \cup {Forge(t) : t \in iss} \cup {Malformed}

----------------------------------------------------------------------------
(* Requests and responses *)

Idle ==
    [op |-> "idle", pc |-> "idle", tok |-> Malformed, role |-> "", user |-> "",
     username |-> "", email |-> "", password |-> "",
     key |-> SearchKey(""), now_ms |-> 0, deleted_total |-> 0, batch_size |-> 0,
     song_id |-> "", entry |-> 0]

\* the last response sent: user is the id of the user row a 201 or a guard
\* hands on
NoResp ==
    [op |-> "none", status |-> 0, detail |-> "", user |-> "", expires_in |-> 0,
     count |-> 0]

Response(op, status, detail) ==
    [op |-> op, status |-> status, detail |-> detail, user |-> "",
     expires_in |-> 0, count |-> 0]

\* variant: the lifetime given in minutes
Token_Minutes(op) ==
    [Response(op, 200, "bearer") EXCEPT !.expires_in = ACCESS_TOKEN_EXPIRE_MINUTES]

\* the Token body of a 200 of login and refresh: expires_in in seconds
Token(op) ==
    [Response(op, 200, "bearer") EXCEPT !.expires_in = ACCESS_TOKEN_EXPIRE_MINUTES * 60]

Slots == DOMAIN slots

\* the tokens the model lets the server make: MaxIssue pairs, and one more
\* pair for each request slot beyond MaxReq
IssueCap == 2 * (MaxIssue + Len(slots) - MaxReq)

\* the rows the model lets the users table hold: the admin, MaxUsers
\* registered users, and one more for each request slot beyond MaxReq
UserCap == 1 + MaxUsers + Len(slots) - MaxReq

\* the instants the clock is read at, in minutes since the start: the
\* deadlines of what is issued at the start, each followed by the minute
\* after it, then one refresh lifetime apart
Deadlines ==
    <<ACCESS_TOKEN_EXPIRE_MINUTES,
      REFRESH_TOKEN_EXPIRE_DAYS * 24 * 60,
      REFRESH_TOKEN_EXPIRE_DAYS * 24 * 60 + BLACKLIST_BUFFER_MINUTES>>

Instant(k) ==
    IF k = 0 THEN 0
    ELSE IF k <= 2 * Len(Deadlines)
    THEN Deadlines[(k + 1) \div 2] + (IF k % 2 = 0 THEN 1 ELSE 0)
    ELSE Deadlines[Len(Deadlines)] + 1
           + (k - 2 * Len(Deadlines)) * REFRESH_TOKEN_EXPIRE_DAYS * 24 * 60

now == Instant(clock)

Init ==
    /\ users = {AdminUser}
    /\ cache = {}
    /\ issued = {}
    /\ origin = {}
    /\ marked = {}
    /\ clock = 0
    /\ slots = [s \in 1 .. MaxReq |-> Idle]
    /\ resp = NoResp
    /\ user_library = {}
    /\ search_history = {}

\* the clock: time.time() and datetime.now() read it
Tick(k) ==
    /\ clock < k
    /\ clock' = k
    /\ UNCHANGED <<users, cache, issued, origin, marked, slots, resp, user_library,
                   search_history>>

----------------------------------------------------------------------------
(* AuthService (app/services/auth_service.py) behind the routes of
   app/api/auth.py *)

\* the row register builds from the request
NewUser(id, username, email, password) ==
    [id |-> id, username |-> username, email |-> email,
     password_hash |-> hash_password(password), role |-> "user",
     is_active |-> TRUE]

\* UserRead.model_validate: the public fields of a row
UserRead(user) ==
    [id |-> user.id, username |-> user.username, email |-> user.email,
     role |-> user.role, is_active |-> user.is_active]

\* the ids tokens were made for: uuid4 does not make the id of a deleted row
\* again
Issuees == {[id |-> o.user] : o \in origin}

\* POST /auth/register, the call running alone
Register(username, email, password) ==
    /\ IF get_by_email(users, email) # {}
       THEN /\ resp' = Response("register", 409, "Email already registered")
            /\ users' = users
       ELSE IF get_by_username(users, username) # {}
       THEN /\ resp' = Response("register", 409, "Username already taken")
            /\ users' = users
       ELSE /\ Cardinality(users) < UserCap
            /\ LET user == NewUser(NewUserId(users \cup Issuees), username, email, password)
               IN  /\ users' = users \cup {user}
                   /\ resp' = [Response("register", 201, "created")
                                 EXCEPT !.user = UserRead(user).id]
    /\ UNCHANGED <<cache, issued, origin, marked, clock, slots, user_library,
                   search_history>>

----------------------------------------------------------------------------
(* Request validation: UserCreate (app/schemas/users.py) in front of
   POST /auth/register *)

\* a username of 51 characters
LongName == "aaaaaaaaaaaaaaaaaaaaaaaaaaaaaaaaaaaaaaaaaaaaaaaaaaa"

\* the request bodies of the validation runs
BodyUsernames == {"ab", "alice", LongName, "admin@jiftube.local"}
BodyEmails == {"alice@x.com", "alice.x.com"}
BodyPasswords ==
    {"Str0ng!Pass", "Sh0rt!", "str0ng!pass", "STR0NG!PASS", "Strong!Pass",
     "Str0ngPass"}

\* the characters of a text of the request bodies
Chars(s) ==
    CASE s = "Str0ng!Pass" -> <<"S", "t", "r", "0", "n", "g", "!", "P", "a", "s", "s">>
      [] s = "Sh0rt!" -> <<"S", "h", "0", "r", "t", "!">>
      [] s = "str0ng!pass" -> <<"s", "t", "r", "0", "n", "g", "!", "p", "a", "s", "s">>
      [] s = "STR0NG!PASS" -> <<"S", "T", "R", "0", "N", "G", "!", "P", "A", "S", "S">>
      [] s = "Strong!Pass" -> <<"S", "t", "r", "o", "n", "g", "!", "P", "a", "s", "s">>
      [] s = "Str0ngPass" -> <<"S", "t", "r", "0", "n", "g", "P", "a", "s", "s">>
      [] s = "ab" -> <<"a", "b">>
      [] s = "alice" -> <<"a", "l", "i", "c", "e">>
      [] s = "alice@x.com" -> <<"a", "l", "i", "c", "e", "@", "x", ".", "c", "o", "m">>
      [] s = "alice.x.com" -> <<"a", "l", "i", "c", "e", ".", "x", ".", "c", "o", "m">>
      [] s = "admin@jiftube.local" -> <<"a", "d", "m", "i", "n", "@", "j", "i", "f", "t", "u", "b", "e", ".", "l", "o", "c", "a", "l">>
      [] s = LongName -> [i \in 1 .. 51 |-> "a"]

Upper == {"S", "T", "R", "N", "G", "P", "A"}
Lower ==
    {"a", "b", "c", "d", "e", "f", "g", "h", "i", "j", "l", "m", "n", "o", "r",
     "s", "t", "u", "x"}
Digit == {"0"}
Special == {"!", "@", "#", "$", "%", "^", "&", "*", "(", ")", ",", ".", "?",
            ":", "{", "}", "|", "<", ">"}

\* re.search of a character class
Search_re(class, v) == \E i \in 1 .. Len(v) : v[i] \in class

\* UserCreate.validate_password: TRUE when no ValueError is raised
validate_password(v) ==
    /\ Len(v) >= 8
    /\ Search_re(Upper, v)
    /\ Search_re(Lower, v)
    /\ Search_re(Digit, v)
    /\ Search_re(Special, v)

\* EmailStr: one "@" with a local part before it and a dotted domain after it
EmailStr(v) ==
    \E i \in 2 .. Len(v) - 1 :
       /\ v[i] = "@"
       /\ \A k \in 1 .. Len(v) : v[k] = "@" => k = i
       /\ \E k \in i + 2 .. Len(v) - 1 : v[k] = "."

\* UserCreate: username is any str, email an EmailStr, password validated
UserCreate(username, email, password) ==
    EmailStr(Chars(email)) /\ validate_password(Chars(password))

\* POST /auth/register: the body validated, then AuthService.register
RegisterRequest(username, email, password) ==
    IF ~UserCreate(username, email, password)
    THEN /\ resp' = Response("register", 422, "Validation error")
         /\ UNCHANGED <<users, cache, issued, origin, marked, clock, slots, user_library,
                        search_history>>
    ELSE Register(username, email, password)

----------------------------------------------------------------------------
(* AuthService, continued *)

\* UsersRepository.update of the is_active flag of one row
SetActive(user_id, active) ==
    /\ \E u \in users :
         /\ u.id = user_id
         /\ u.is_active # active
         /\ users' = (users \ {u}) \cup {[u EXCEPT !.is_active = active]}
    /\ UNCHANGED <<cache, issued, origin, marked, clock, slots, resp, user_library,
                   search_history>>

\* UsersRepository.update of the role of one row
SetRole(user_id, role) ==
    /\ \E u \in users :
         /\ u.id = user_id
         /\ u.role # role
         /\ users' = (users \ {u}) \cup {[u EXCEPT !.role = role]}
    /\ UNCHANGED <<cache, issued, origin, marked, clock, slots, resp, user_library,
                   search_history>>

\* UsersRepository.update of the username of one row: the unique index
\* refuses a username another row has
Rename(user_id, username) ==
    /\ \E u \in users :
         /\ u.id = user_id
         /\ u.username # username
         /\ get_by_username(users, username) = {}
         /\ users' = (users \ {u}) \cup {[u EXCEPT !.username = username]}
    /\ UNCHANGED <<cache, issued, origin, marked, clock, slots, resp, user_library,
                   search_history>>

\* UsersRepository.delete
Delete(user_id) ==
    /\ get_by_id(users, user_id) # {}
    /\ users' = users \ get_by_id(users, user_id)
    /\ UNCHANGED <<cache, issued, origin, marked, clock, slots, resp, user_library,
                   search_history>>

\* where a token came from: the token it was rotated from (0 for a login) and
\* the id of the user row the handler held when it made the token
Origin(tok, from, user_id) == [jti |-> tok.claims.jti, from |-> from, user |-> user_id]

\* variant: rows that are not active are not found
LoginRows_ActiveOnly(us, username_or_email) ==
    {u \in us : (u.email = username_or_email \/ u.username = username_or_email)
                   /\ u.is_active}

\* the user row authenticate works on: by email, else by username
LoginRows(us, username_or_email) ==
    IF get_by_email(us, username_or_email) # {}
    THEN get_by_email(us, username_or_email)
    ELSE get_by_username(us, username_or_email)

\* the pair authenticate makes for a user row
LoginAccess(user, iss, t) ==
    create_access_token(user.username, user.id, <<user.role>>, FreshJti(iss, 1), t)

LoginRefresh(user, iss, t) ==
    create_refresh_token(user.username, user.id, <<>>, FreshJti(iss, 2), t)

\* POST /auth/login
Authenticate(username_or_email, password) ==
    LET rows == LoginRows(users, username_or_email)
    IN  /\ IF rows = {} \/ ~verify_password(password, First(rows).password_hash)
           THEN /\ resp' = Response("login", 401,
                                    "Incorrect username/email or password")
                /\ UNCHANGED <<issued, origin>>
           ELSE IF ~First(rows).is_active
           THEN /\ resp' = Response("login", 403, "Inactive user")
                /\ UNCHANGED <<issued, origin>>
           ELSE /\ Cardinality(issued) < IssueCap
                /\ LET access == LoginAccess(First(rows), issued, now)
                       refresh == LoginRefresh(First(rows), issued, now)
                   IN  /\ issued' = issued \cup {access, refresh}
                       /\ origin' = origin \cup
                            {Origin(access, 0, First(rows).id),
                             Origin(refresh, 0, First(rows).id)}
                       /\ resp' = Token("login")
        /\ UNCHANGED <<users, cache, marked, clock, slots, user_library,
                       search_history>>

\* variant: the marker written before the user is looked up
RefreshSteps_RevokeFirst == <<"blacklist", "lookup", "issue">>

\* variant: the pair made before the marker is written
RefreshSteps_IssueFirst == <<"lookup", "issue", "blacklist">>

\* the order of the database steps of refresh_tokens once the token verified
RefreshSteps == <<"lookup", "blacklist", "issue">>

StepAfter(pc) ==
    LET i == CHOOSE k \in 1 .. Len(RefreshSteps) : RefreshSteps[k] = pc
    IN  IF i = Len(RefreshSteps) THEN "done" ELSE RefreshSteps[i + 1]

\* a refresh request leaves a step: on to the next one, or the 200 with the pair
Proceed(s, slot) ==
    IF StepAfter(slot.pc) = "done"
    THEN /\ slots' = [slots EXCEPT ![s] = Idle]
         /\ resp' = Token("refresh")
    ELSE /\ slots' = [slots EXCEPT ![s] = [slot EXCEPT !.pc = StepAfter(slot.pc)]]
         /\ resp' = resp

\* variant: is_active not looked at
FoundActive_AnyRow(rows) == rows # {}

\* "if not user or not user.is_active" does not hold of the row looked up
FoundActive(rows) == rows # {} /\ First(rows).is_active

\* a worker takes the request: the lowest free slot
FreeSlot(s) == slots[s] = Idle /\ \A r \in Slots : r < s => slots[r] # Idle

\* POST /auth/refresh, first step: verify_token with the blacklist check
RefreshVerify(tok) ==
    /\ LET payload == verify_token(tok, "refresh", cache, now)
       IN  IF payload = NoClaims
           THEN /\ resp' = Response("refresh", 401,
                                    "Invalid or expired refresh token")
                /\ slots' = slots
           ELSE IF payload.sub = ""
           THEN /\ resp' = Response("refresh", 401, "Invalid token payload")
                /\ slots' = slots
           ELSE /\ \E s \in Slots :
                     /\ FreeSlot(s)
                     /\ slots' = [slots EXCEPT ![s] =
                                    [Idle EXCEPT !.op = "refresh",
                                                 !.pc = RefreshSteps[1],
                                                 !.tok = tok]]
                /\ resp' = resp
    /\ UNCHANGED <<users, cache, issued, origin, marked, clock, user_library,
                   search_history>>

\* second step: the user row named by the sub claim
RefreshLookup(s) ==
    /\ slots[s].op = "refresh" /\ slots[s].pc = "lookup"
    /\ LET rows == get_by_username(users, slots[s].tok.claims.sub)
       IN  IF ~FoundActive(rows)
           THEN /\ resp' = Response("refresh", 403, "User not found or inactive")
                /\ slots' = [slots EXCEPT ![s] = Idle]
           ELSE Proceed(s, [slots[s] EXCEPT !.role = First(rows).role,
                                            !.user = First(rows).id])
    /\ UNCHANGED <<users, cache, issued, origin, marked, clock, user_library,
                   search_history>>

\* the marker of tok that is committed in cache c, with the operation that
\* wrote it
Committed(c, tok, op) ==
    {<<e.cache_key.jti, op>> :
       e \in {x \in c : x.cache_key = BlacklistKey(tok.claims.jti)}}

\* third step: _blacklist_token writes the marker and commits
RefreshBlacklist(s) ==
    /\ slots[s].op = "refresh" /\ slots[s].pc = "blacklist"
    /\ cache' = blacklist_token(cache, slots[s].tok, "refresh", now)
    /\ marked' = marked \cup Committed(cache', slots[s].tok, "refresh")
    /\ Proceed(s, slots[s])
    /\ UNCHANGED <<users, issued, origin, clock, user_library,
                   search_history>>

\* the pair refresh_tokens makes from the payload of the old token
RotateAccess(payload, role, iss, t) ==
    create_access_token(payload.sub, payload.user_id, <<role>>, FreshJti(iss, 1), t)

RotateRefresh(payload, iss, t) ==
    create_refresh_token(payload.sub, payload.user_id, <<>>, FreshJti(iss, 2), t)

\* last step: the new pair is made and returned
RefreshIssue(s) ==
    /\ slots[s].op = "refresh" /\ slots[s].pc = "issue"
    /\ Cardinality(issued) < IssueCap
    /\ LET payload == slots[s].tok.claims
           access == RotateAccess(payload, slots[s].role, issued, now)
           refresh == RotateRefresh(payload, issued, now)
       IN  /\ issued' = issued \cup {access, refresh}
           /\ origin' = origin \cup {Origin(access, payload.jti, slots[s].user),
                                     Origin(refresh, payload.jti, slots[s].user)}
    /\ Proceed(s, slots[s])
    /\ UNCHANGED <<users, cache, marked, clock, user_library,
                   search_history>>

\* POST /auth/logout, first step: verify_token with the blacklist check
LogoutVerify(tok) ==
    /\ IF verify_token(tok, "refresh", cache, now) = NoClaims
       THEN /\ resp' = Response("logout", 401, "Invalid refresh token")
            /\ slots' = slots
       ELSE /\ \E s \in Slots :
                 /\ FreeSlot(s)
                 /\ slots' = [slots EXCEPT ![s] =
                                [Idle EXCEPT !.op = "logout", !.pc = "blacklist",
                                             !.tok = tok]]
            /\ resp' = resp
    /\ UNCHANGED <<users, cache, issued, origin, marked, clock, user_library,
                   search_history>>

\* second step: _blacklist_token writes the marker and commits; 204
LogoutBlacklist(s) ==
    /\ slots[s].op = "logout" /\ slots[s].pc = "blacklist"
    /\ cache' = blacklist_token(cache, slots[s].tok, "refresh", now)
    /\ marked' = marked \cup Committed(cache', slots[s].tok, "logout")
    /\ resp' = Response("logout", 204, "")
    /\ slots' = [slots EXCEPT ![s] = Idle]
    /\ UNCHANGED <<users, issued, origin, clock, user_library,
                   search_history>>

\* a request stops between two of its steps (the worker dies, the client
\* goes away): what it committed stays, the rest is rolled back
Abort(s) ==
    /\ slots[s] # Idle
    /\ slots' = [slots EXCEPT ![s] = Idle]
    /\ UNCHANGED <<users, cache, issued, origin, marked, clock, resp, user_library,
                   search_history>>

\* variant: a table without the unique indexes
UniqueViolation_None(us, user) == FALSE

\* the unique indexes of users.username and users.email refuse the row
UniqueViolation(us, user) ==
    \E u \in us : u.username = user.username \/ u.email = user.email

\* POST /auth/register as concurrent requests see it, first step: the
\* SELECT by email
RegisterCheckEmail(username, email, password) ==
    /\ IF get_by_email(users, email) # {}
       THEN /\ resp' = Response("register", 409, "Email already registered")
            /\ slots' = slots
       ELSE /\ \E s \in Slots :
                 /\ FreeSlot(s)
                 /\ slots' = [slots EXCEPT ![s] =
                                [Idle EXCEPT !.op = "register", !.pc = "username",
                                             !.username = username,
                                             !.email = email,
                                             !.password = password]]
            /\ resp' = resp
    /\ UNCHANGED <<users, cache, issued, origin, marked, clock, user_library,
                   search_history>>

\* second step: the SELECT by username
RegisterCheckUsername(s) ==
    /\ slots[s].op = "register" /\ slots[s].pc = "username"
    /\ IF get_by_username(users, slots[s].username) # {}
       THEN /\ resp' = Response("register", 409, "Username already taken")
            /\ slots' = [slots EXCEPT ![s] = Idle]
       ELSE /\ slots' = [slots EXCEPT ![s].pc = "create"]
            /\ resp' = resp
    /\ UNCHANGED <<users, cache, issued, origin, marked, clock, user_library,
                   search_history>>

\* last step: UsersRepository.create flushes the INSERT and the service
\* commits; an IntegrityError is not caught and ends in the handler for
\* unhandled exceptions of app/main.py
RegisterCreate(s) ==
    /\ slots[s].op = "register" /\ slots[s].pc = "create"
    /\ LET user == NewUser(NewUserId(users), slots[s].username, slots[s].email,
                           slots[s].password)
       IN  IF UniqueViolation(users, user)
           THEN /\ resp' = Response("register", 500, "Internal server error")
                /\ users' = users
           ELSE /\ Cardinality(users) < UserCap
                /\ users' = users \cup {user}
                /\ resp' = [Response("register", 201, "created")
                              EXCEPT !.user = UserRead(user).id]
    /\ slots' = [slots EXCEPT ![s] = Idle]
    /\ UNCHANGED <<cache, issued, origin, marked, clock, user_library,
                   search_history>>

----------------------------------------------------------------------------
(* Route guards (app/api/dependencies.py) *)

\* _load_user_from_payload: the user row the payload resolves to, or the 401
load_user_from_payload(us, payload) ==
    LET user_id_raw == IF payload.user_id # "" THEN payload.user_id ELSE payload.sub
    IN  IF user_id_raw = ""
        THEN Response("guard", 401, "Invalid token payload: missing user_id")
        ELSE IF user_id_raw \notin UuidText
        THEN Response("guard", 401, "Invalid token: malformed user_id")
        ELSE IF get_by_id(us, user_id_raw) = {}
        THEN Response("guard", 401, "User not found")
        ELSE [Response("guard", 200, "")
                EXCEPT !.user = First(get_by_id(us, user_id_raw)).id]

\* variant: a 401 that tells an undecodable token from a refused one
get_current_user_Telling(tok, us, c, t) ==
    IF tok = Absent
    THEN Response("guard", 401, "Missing or invalid access token")
    ELSE IF decode_token(tok, t) = NoClaims
    THEN Response("guard", 401, "Token expired or malformed")
    ELSE IF verify_token(tok, "access", c, t) = NoClaims
    THEN Response("guard", 401, "Invalid or expired access token")
    ELSE load_user_from_payload(us, verify_token(tok, "access", c, t))

\* get_current_user over require_bearer_token and verify_access_token
get_current_user(tok, us, c, t) ==
    IF tok = Absent
    THEN Response("guard", 401, "Missing or invalid access token")
    ELSE IF verify_token(tok, "access", c, t) = NoClaims
    THEN Response("guard", 401, "Invalid or expired access token")
    ELSE load_user_from_payload(us, verify_token(tok, "access", c, t))

\* a request to a protected route, e.g. GET /users/me
GetCurrentUser(tok) ==
    /\ resp' = get_current_user(tok, users, cache, now)
    /\ UNCHANGED <<users, cache, issued, origin, marked, clock, slots, user_library,
                   search_history>>

\* the row a guard that answered 200 hands on
Resolved(us, r) == First(get_by_id(us, r.user))

\* variant: the refusal of the token passed on to the route
get_current_user_optional_Raising(tok, us, c, t) ==
    IF tok = Absent THEN Response("optional", 200, "")
    ELSE [get_current_user(tok, us, c, t) EXCEPT !.op = "optional"]

\* get_current_user_optional: user "" is the None the route goes on with
get_current_user_optional(tok, us, c, t) ==
    LET found == get_current_user(tok, us, c, t)
    IN  IF tok = Absent THEN Response("optional", 200, "")
        ELSE IF found.status # 200 THEN Response("optional", 200, "")
        ELSE IF ~Resolved(us, found).is_active THEN Response("optional", 200, "")
        ELSE [found EXCEPT !.op = "optional"]

get_current_active_user(tok, us, c, t) ==
    LET current_user == get_current_user(tok, us, c, t)
    IN  IF current_user.status # 200 THEN [current_user EXCEPT !.op = "active"]
        ELSE IF ~Resolved(us, current_user).is_active
        THEN Response("active", 403, "Inactive user")
        ELSE [current_user EXCEPT !.op = "active"]

\* variant: the role read from the scopes of the token
require_admin_Scopes(tok, us, c, t) ==
    LET current_user == get_current_user(tok, us, c, t)
    IN  IF current_user.status # 200 THEN [current_user EXCEPT !.op = "admin"]
        ELSE IF tok.claims.scopes \notin {<<"admin">>, <<"superuser">>}
        THEN Response("admin", 403, "Admin access required")
        ELSE [current_user EXCEPT !.op = "admin"]

require_admin(tok, us, c, t) ==
    LET current_user == get_current_user(tok, us, c, t)
    IN  IF current_user.status # 200 THEN [current_user EXCEPT !.op = "admin"]
        ELSE IF Resolved(us, current_user).role \notin {"admin", "superuser"}
        THEN Response("admin", 403, "Admin access required")
        ELSE [current_user EXCEPT !.op = "admin"]

get_user_id(tok, us, c, t) ==
    [get_current_user(tok, us, c, t) EXCEPT !.op = "user_id"]

\* requests to routes behind the other guards: GET /users/ is behind
\* require_admin
GetCurrentUserOptional(tok) ==
    /\ resp' = get_current_user_optional(tok, users, cache, now)
    /\ UNCHANGED <<users, cache, issued, origin, marked, clock, slots, user_library,
                   search_history>>

GetCurrentActiveUser(tok) ==
    /\ resp' = get_current_active_user(tok, users, cache, now)
    /\ UNCHANGED <<users, cache, issued, origin, marked, clock, slots, user_library,
                   search_history>>

RequireAdmin(tok) ==
    /\ resp' = require_admin(tok, users, cache, now)
    /\ UNCHANGED <<users, cache, issued, origin, marked, clock, slots, user_library,
                   search_history>>

GetUserId(tok) ==
    /\ resp' = get_user_id(tok, users, cache, now)
    /\ UNCHANGED <<users, cache, issued, origin, marked, clock, slots, user_library,
                   search_history>>

----------------------------------------------------------------------------
(* Search caching (app/services/youtube_service.py) and cache upkeep
   (app/services/cache_service.py) *)

\* GET /search without a token: a cache hit, or the upstream call and a set
Search(query, upstream) ==
    /\ IF cache_get(cache, SearchKey(query), now) # None
       THEN /\ cache' = cache
            /\ resp' = Response("search", 200, "hit")
       ELSE IF upstream = "error"
       THEN /\ cache' = cache
            /\ resp' = Response("search", 503, "YouTube API error")
       ELSE IF upstream = "empty"
       THEN /\ cache' = cache_after_get(cache, SearchKey(query), now)
            /\ resp' = Response("search", 200, "empty")
       ELSE /\ cache' = cache_set(cache_after_get(cache, SearchKey(query), now),
                                  SearchKey(query), "results",
                                  SEARCH_CACHE_TTL_MINUTES, now)
            /\ resp' = Response("search", 200, "miss")
    /\ UNCHANGED <<users, issued, origin, marked, clock, slots, user_library,
                   search_history>>

\* GET /search as the route runs it: the optional guard first; for the user
\* it yields the route reads current_user.get("user_id") of a User object,
\* outside its try block, and the request ends in the 500 of the application;
\* for None it calls the service with no user id, which logs nothing
SearchRequest(tok, query, upstream) ==
    LET current_user == get_current_user_optional(tok, users, cache, now)
    IN  IF current_user.user # ""
        THEN /\ resp' = Response("search", 500, "Internal server error")
             /\ UNCHANGED <<users, cache, issued, origin, marked, clock, slots,
                            user_library, search_history>>
        ELSE Search(query, upstream)

\* the rows one SELECT ... LIMIT batch_size may return
Batches(c, batch_size) ==
    {B \in SUBSET c :
       Cardinality(B) = IF Cardinality(c) < batch_size THEN Cardinality(c)
                        ELSE batch_size}

\* the caches cleanup_expired may leave: each pass deletes the expired rows
\* of one batch and the loop ends on a pass that deletes nothing
RECURSIVE cleanup_expired(_, _, _)
cleanup_expired(c, batch_size, t) ==
    IF c = {} THEN {c}
    ELSE UNION {IF {e \in B : Expired(e, t)} = {} THEN {c}
                ELSE cleanup_expired(c \ {e \in B : Expired(e, t)}, batch_size, t)
                : B \in Batches(c, batch_size)}

\* the lifespan hook of app/main.py: cleanup_expired() at startup and shutdown
CleanupExpired ==
    /\ cache' \in cleanup_expired(cache, 100, now)
    /\ cache' # cache
    /\ UNCHANGED <<users, issued, origin, marked, clock, slots, resp, user_library,
                   search_history>>

\* the cache used directly, as app/test_db.py does: keys, values and
\* lifetimes of the calls
Keys == {SearchKey("q"), BlacklistKey(1)}
Data == {"results", "revoked"}
Ttls == {ACCESS_TOKEN_EXPIRE_MINUTES, SEARCH_CACHE_TTL_MINUTES}

\* int(time.time() * 1000) of an instant, and the lifetime in milliseconds
Ms(minutes) == minutes * 60 * 1000

\* CacheService.set: one UPSERT
Set(key, data, ttl_minutes) ==
    /\ cache' = cache_set(cache, key, data, ttl_minutes, now)
    /\ resp' = Response("set", 200, "")
    /\ UNCHANGED <<users, issued, origin, marked, clock, slots, user_library,
                   search_history>>

\* CacheRepository.get up to its return or its call of invalidate: the row
\* is read and its expiry compared with the clock
GetRead(key) ==
    /\ IF cache_get(cache, key, now) # None \/ {e \in cache : e.cache_key = key} = {}
       THEN /\ resp' = Response("get", 200, cache_get(cache, key, now))
            /\ slots' = slots
       ELSE /\ \E s \in Slots :
                 /\ FreeSlot(s)
                 /\ slots' = [slots EXCEPT ![s] =
                                [Idle EXCEPT !.op = "get", !.pc = "invalidate",
                                             !.key = key]]
            /\ resp' = resp
    /\ UNCHANGED <<users, cache, issued, origin, marked, clock, user_library,
                   search_history>>

\* the rest of CacheRepository.get for an expired row: DELETE by key, None
GetInvalidate(s) ==
    /\ slots[s].op = "get" /\ slots[s].pc = "invalidate"
    /\ cache' = cache_invalidate(cache, slots[s].key)
    /\ resp' = Response("get", 200, None)
    /\ slots' = [slots EXCEPT ![s] = Idle]
    /\ UNCHANGED <<users, issued, origin, marked, clock, user_library,
                   search_history>>

\* cleanup_expired up to its loop: the clock is read once
CleanupStart(batch_size) ==
    /\ \E s \in Slots :
         /\ FreeSlot(s)
         /\ slots' = [slots EXCEPT ![s] =
                        [Idle EXCEPT !.op = "cleanup", !.pc = "loop",
                                     !.now_ms = now, !.batch_size = batch_size]]
    /\ UNCHANGED <<users, cache, issued, origin, marked, clock, resp, user_library,
                   search_history>>

\* variant: the loop goes on after a pass that deleted nothing
LoopEnds_OnEmptyOnly(entries, deleted_batch) == entries = {}

\* "if not entries: break" and "if deleted_batch == 0: break"
LoopEnds(entries, deleted_batch) == entries = {} \/ deleted_batch = 0

\* one pass of the loop of cleanup_expired: a batch is selected and its
\* expired rows deleted; after the last pass the commit and the return
CleanupPass(s) ==
    /\ slots[s].op = "cleanup" /\ slots[s].pc = "loop"
    /\ \E entries \in Batches(cache, slots[s].batch_size) :
         LET expired == {e \in entries : Expired(e, slots[s].now_ms)}
             deleted_total == slots[s].deleted_total + Cardinality(expired)
         IN  /\ cache' = cache \ expired
             /\ IF LoopEnds(entries, Cardinality(expired))
                THEN /\ slots' = [slots EXCEPT ![s] = Idle]
                     /\ resp' = [Response("cleanup", 200, "")
                                   EXCEPT !.count = deleted_total]
                ELSE /\ slots' = [slots EXCEPT ![s].deleted_total = deleted_total]
                     /\ resp' = resp
    /\ UNCHANGED <<users, issued, origin, marked, clock, user_library,
                   search_history>>

\* cache maintenance no route calls
Invalidate(key) ==
    /\ \E e \in cache : e.cache_key = key
    /\ cache' = cache_invalidate(cache, key)
    /\ UNCHANGED <<users, issued, origin, marked, clock, slots, resp, user_library,
                   search_history>>

InvalidateAll ==
    /\ cache # {}
    /\ cache' = {}
    /\ UNCHANGED <<users, issued, origin, marked, clock, slots, resp, user_library,
                   search_history>>

InvalidatePattern(pattern) ==
    /\ \E e \in cache : Like(e.cache_key, pattern)
    /\ cache' = {e \in cache : ~Like(e.cache_key, pattern)}
    /\ UNCHANGED <<users, issued, origin, marked, clock, slots, resp, user_library,
                   search_history>>

----------------------------------------------------------------------------
(* The library of a user (app/repositories/library.py): rows of the table
   user_library, which has a generated primary key and no unique constraint *)

Songs == {"dQw4w9WgXcQ", "9bZkp7q19f0"}

get_entry(lib, user_id, song_id) ==
    {r \in lib : r.user_id = user_id /\ r.song_id = song_id}

list_by_user(lib, user_id) == {r \in lib : r.user_id = user_id}

\* uuid4 of a new row: an id no row has and no request holds
NewEntryId(lib, sl) ==
    CHOOSE i \in 1 .. Cardinality(lib) + Len(sl) + 1 :
       /\ \A r \in lib : r.id # i
       /\ \A k \in DOMAIN sl : sl[k].entry # i

\* LibraryRepository.add up to its return of the existing entry, or to the
\* insert
AddCheck(user_id, song_id) ==
    /\ IF get_entry(user_library, user_id, song_id) # {}
       THEN /\ resp' = [Response("library_add", 201, song_id) EXCEPT !.user = user_id]
            /\ slots' = slots
       ELSE /\ \E s \in Slots :
                 /\ FreeSlot(s)
                 /\ slots' = [slots EXCEPT ![s] =
                                [Idle EXCEPT !.op = "library_add", !.pc = "insert",
                                             !.user = user_id, !.song_id = song_id]]
            /\ resp' = resp
    /\ UNCHANGED <<users, cache, issued, origin, marked, clock, user_library,
                   search_history>>

\* the rest of add: the new row inserted and returned
AddInsert(s) ==
    /\ slots[s].op = "library_add" /\ slots[s].pc = "insert"
    /\ user_library' = user_library \cup
         {[id |-> NewEntryId(user_library, slots), user_id |-> slots[s].user,
           song_id |-> slots[s].song_id]}
    /\ resp' = [Response("library_add", 201, slots[s].song_id)
                  EXCEPT !.user = slots[s].user]
    /\ slots' = [slots EXCEPT ![s] = Idle]
    /\ UNCHANGED <<users, cache, issued, origin, marked, clock, search_history>>

\* LibraryRepository.remove up to its return of False, or to the delete of
\* the first row the query returned
RemoveCheck(user_id, song_id) ==
    /\ IF get_entry(user_library, user_id, song_id) = {}
       THEN /\ resp' = [Response("library_remove", 404, song_id) EXCEPT !.user = user_id]
            /\ slots' = slots
       ELSE /\ \E s \in Slots, entry \in get_entry(user_library, user_id, song_id) :
                 /\ FreeSlot(s)
                 /\ slots' = [slots EXCEPT ![s] =
                                [Idle EXCEPT !.op = "library_remove", !.pc = "delete",
                                             !.user = user_id, !.song_id = song_id,
                                             !.entry = entry.id]]
            /\ resp' = resp
    /\ UNCHANGED <<users, cache, issued, origin, marked, clock, user_library,
                   search_history>>

\* the rest of remove: the row deleted by its primary key
RemoveDelete(s) ==
    /\ slots[s].op = "library_remove" /\ slots[s].pc = "delete"
    /\ user_library' = {r \in user_library : r.id # slots[s].entry}
    /\ resp' = [Response("library_remove", 204, slots[s].song_id)
                  EXCEPT !.user = slots[s].user]
    /\ slots' = [slots EXCEPT ![s] = Idle]
    /\ UNCHANGED <<users, cache, issued, origin, marked, clock, search_history>>

----------------------------------------------------------------------------
(* The search history (app/repositories/search.py): rows of the table
   search_history *)

HistoryQueries == {"q", "test query"}

\* uuid4 of a new history row
NewSearchId(h) == CHOOSE i \in 1 .. Cardinality(h) + 1 : \A r \in h : r.id # i

\* variant: a new row on every call
log_search_AlwaysInsert(h, user_id, query, timestamp) ==
    h \cup {[id |-> NewSearchId(h), user_id |-> user_id, query |-> query,
             count |-> 1, timestamp |-> timestamp]}

\* SearchRepository.log_search: the table after the call
log_search(h, user_id, query, timestamp) ==
    LET rows == {r \in h : r.user_id = user_id /\ r.query = query}
    IN  IF rows # {}
        THEN LET existing == CHOOSE r \in rows : TRUE
             IN  (h \ {existing}) \cup
                   {[existing EXCEPT !.count = existing.count + 1,
                                     !.timestamp = timestamp]}
        ELSE h \cup {[id |-> NewSearchId(h), user_id |-> user_id, query |-> query,
                      count |-> 1, timestamp |-> timestamp]}

\* one call log_search(user_id, query) and its commit, as app/test_db.py makes it
LogSearch(user_id, query) ==
    /\ \A r \in search_history :
          (r.user_id = user_id /\ r.query = query) => r.count < MaxLog
    /\ search_history' = log_search(search_history, user_id, query, Ms(now))
    /\ resp' = [Response("log_search", 200, query) EXCEPT !.user = user_id]
    /\ UNCHANGED <<users, cache, issued, origin, marked, clock, slots, user_library>>

----------------------------------------------------------------------------
(* Specifications *)

Identifiers == Usernames \cup Emails \cup {"admin"}

\* the session life cycle of the account that exists from the start, with
\* clients that present the tokens they were given and what they made of them
Next ==
    \/ \E k \in 1 .. MaxClock : Tick(k)
    \/ \E b \in BOOLEAN : SetActive(AdminId, b)
    \/ \E p \in Passwords : Authenticate("admin", p)
    \/ \E tok \in issued \cup {Malformed} : RefreshVerify(tok)
    \/ \E s \in Slots : RefreshLookup(s)
    \/ \E s \in Slots : RefreshBlacklist(s)
    \/ \E s \in Slots : RefreshIssue(s)
    \/ \E tok \in issued \cup {Malformed} : LogoutVerify(tok)
    \/ \E s \in Slots : LogoutBlacklist(s)
    \/ \E s \in Slots : Abort(s)
    \/ \E tok \in issued \cup {Malformed} : GetCurrentUser(tok)
    \/ CleanupExpired

Spec == Init /\ [][Next]_vars

\* the instant a token issued at the start expires, and the minute after
AtAccessExpiry(k) == Instant(k) - ACCESS_TOKEN_EXPIRE_MINUTES \in {0, 1}

\* accounts: registration, activation, login, rotation and the guard, with
\* the clock read at the start and around the expiry of the first access
\* tokens, and clients that also present what they made themselves
NextUsers ==
    \/ \E k \in 1 .. MaxClock : AtAccessExpiry(k) /\ Tick(k)
    \/ \E u \in Usernames \cup {"admin"}, e \in Emails : Register(u, e, "Str0ng!Pass")
    \/ \E i \in UserIds, b \in BOOLEAN : SetActive(i, b)
    \/ \E i \in Identifiers, p \in Passwords : Authenticate(i, p)
    \/ \E tok \in Presentable(issued) : RefreshVerify(tok)
    \/ \E s \in Slots : RefreshLookup(s)
    \/ \E s \in Slots : RefreshBlacklist(s)
    \/ \E s \in Slots : RefreshIssue(s)
    \/ \E tok \in Presentable(issued) \cup {Absent} : GetCurrentUser(tok)

SpecUsers == Init /\ [][NextUsers]_vars

\* sessions next to the search cache and the cache maintenance methods, with
\* the clock read at the start and around the expiry of the first refresh
\* tokens
AtRefreshExpiry(k) == Instant(k) - REFRESH_TOKEN_EXPIRE_DAYS * 24 * 60 \in {0, 1}

NextMaint ==
    \/ \E k \in 1 .. MaxClock : AtRefreshExpiry(k) /\ Tick(k)
    \/ \E p \in Passwords : Authenticate("admin", p)
    \/ \E tok \in issued : RefreshVerify(tok)
    \/ \E s \in Slots : RefreshLookup(s)
    \/ \E s \in Slots : RefreshBlacklist(s)
    \/ \E s \in Slots : RefreshIssue(s)
    \/ \E tok \in issued : LogoutVerify(tok)
    \/ \E s \in Slots : LogoutBlacklist(s)
    \/ \E q \in Queries, up \in {"ok", "empty", "error"} : Search(q, up)
    \/ CleanupExpired
    \/ \E e \in cache : Invalidate(e.cache_key)
    \/ InvalidateAll
    \/ \E p \in Patterns : InvalidatePattern(p)

SpecMaint == Init /\ [][NextMaint]_vars

\* one account and clients that present, to every token route, the tokens
\* they were given and what they made of them
NextForge ==
    \/ \E k \in 1 .. MaxClock : (AtAccessExpiry(k) \/ AtRefreshExpiry(k)) /\ Tick(k)
    \/ \E p \in Passwords : Authenticate("admin", p)
    \/ \E tok \in Presentable(issued) : RefreshVerify(tok)
    \/ \E s \in Slots : RefreshLookup(s)
    \/ \E s \in Slots : RefreshBlacklist(s)
    \/ \E s \in Slots : RefreshIssue(s)
    \/ \E tok \in Presentable(issued) : LogoutVerify(tok)
    \/ \E s \in Slots : LogoutBlacklist(s)
    \/ \E tok \in Presentable(issued) \cup {Absent} : GetCurrentUser(tok)

SpecForge == Init /\ [][NextForge]_vars

\* requests that run at the same time: one worker more than MaxReq, with
\* registrations and rotations step by step
RaceEmails == Emails \cup {"bob@x.com"}

InitRace ==
    /\ users = {AdminUser}
    /\ cache = {}
    /\ issued = {}
    /\ origin = {}
    /\ marked = {}
    /\ clock = 0
    /\ slots = [s \in 1 .. MaxReq + 1 |-> Idle]
    /\ resp = NoResp
    /\ user_library = {}
    /\ search_history = {}

NextRace ==
    \/ \E u \in Usernames, e \in RaceEmails : RegisterCheckEmail(u, e, "Str0ng!Pass")
    \/ \E s \in Slots : RegisterCheckUsername(s)
    \/ \E s \in Slots : RegisterCreate(s)
    \/ \E p \in Passwords : Authenticate("admin", p)
    \/ \E tok \in issued : RefreshVerify(tok)
    \/ \E s \in Slots : RefreshLookup(s)
    \/ \E s \in Slots : RefreshBlacklist(s)
    \/ \E s \in Slots : RefreshIssue(s)

SpecRace == InitRace /\ [][NextRace]_vars

\* the guards of the protected routes, with accounts whose flag and role
\* change between the requests
Roles == {"user", "admin"}

NextGuards ==
    \/ \E k \in 1 .. MaxClock : AtAccessExpiry(k) /\ Tick(k)
    \/ \E u \in Usernames, e \in Emails : Register(u, e, "Str0ng!Pass")
    \/ \E i \in UserIds, b \in BOOLEAN : SetActive(i, b)
    \/ \E r \in Roles : SetRole(AdminId, r)
    \/ \E i \in Usernames \cup {"admin"}, p \in Passwords \ {"wrong"} : Authenticate(i, p)
    \/ \E tok \in Presentable(issued) \cup {Absent} : GetCurrentUser(tok)
    \/ \E tok \in Presentable(issued) \cup {Absent} : GetCurrentUserOptional(tok)
    \/ \E tok \in Presentable(issued) \cup {Absent} : GetCurrentActiveUser(tok)
    \/ \E tok \in Presentable(issued) \cup {Absent} : RequireAdmin(tok)
    \/ \E tok \in Presentable(issued) \cup {Absent} : GetUserId(tok)

SpecGuards == Init /\ [][NextGuards]_vars

\* registration requests with bodies that pass and bodies that fail the
\* validation, next to logins of the accounts
NextValidate ==
    \/ \E u \in BodyUsernames, e \in BodyEmails, p \in BodyPasswords :
         RegisterRequest(u, e, p)
    \/ \E i \in UserIds, b \in BOOLEAN : SetActive(i, b)
    \/ \E i \in BodyUsernames \cup {"admin"}, p \in {"Str0ng!Pass", "adminpass"} :
         Authenticate(i, p)

SpecValidate == Init /\ [][NextValidate]_vars

\* accounts that are renamed and deleted and whose usernames are taken
\* again, next to logins and rotations
NextAccounts ==
    \/ \E e \in RaceEmails : Register("alice", e, "Str0ng!Pass")
    \/ \E i \in UserIds, b \in BOOLEAN : SetActive(i, b)
    \/ \E i \in UserIds, n \in {"alice", "bob"} : Rename(i, n)
    \/ \E i \in UserIds : Delete(i)
    \/ \E i \in {"alice", "bob"} : Authenticate(i, "Str0ng!Pass")
    \/ \E tok \in issued : RefreshVerify(tok)
    \/ \E s \in Slots : RefreshLookup(s)
    \/ \E s \in Slots : RefreshBlacklist(s)
    \/ \E s \in Slots : RefreshIssue(s)

SpecAccounts == Init /\ [][NextAccounts]_vars

\* the sessions of one account that is switched off and on, with calls that
\* are refused at each point a rotation or a logout can be refused at
NextSessions ==
    \/ \E k \in 1 .. MaxClock : (AtAccessExpiry(k) \/ AtRefreshExpiry(k)) /\ Tick(k)
    \/ \E b \in BOOLEAN : SetActive(AdminId, b)
    \/ Authenticate("admin", "adminpass")
    \/ \E tok \in issued \cup {Malformed} : RefreshVerify(tok)
    \/ \E s \in Slots : RefreshLookup(s)
    \/ \E s \in Slots : RefreshBlacklist(s)
    \/ \E s \in Slots : RefreshIssue(s)
    \/ \E tok \in issued \cup {Malformed} : LogoutVerify(tok)
    \/ \E s \in Slots : LogoutBlacklist(s)

SpecSessions == Init /\ [][NextSessions]_vars

\* the cache on its own: sets, gets and cleanups at every instant the clock
\* is read at
MaxBatch == 2

NextCache ==
    \/ \E k \in 1 .. MaxClock : Tick(k)
    \/ \E key \in Keys, d \in Data, ttl \in Ttls : Set(key, d, ttl)
    \/ \E key \in Keys : GetRead(key)
    \/ \E s \in Slots : GetInvalidate(s)
    \/ \E b \in 1 .. MaxBatch : CleanupStart(b)
    \/ \E s \in Slots : CleanupPass(s)

SpecCache == Init /\ [][NextCache]_vars

\* the same, with every cleanup call that is in its loop getting to run
SpecCacheLive ==
    Init /\ [][NextCache]_vars /\ \A s \in 1 .. MaxReq : WF_vars(CleanupPass(s))

\* the library calls of the seeded account next to each other, one worker
\* more than MaxReq
NextLibrary ==
    \/ \E u \in users, song \in Songs : AddCheck(u.id, song)
    \/ \E s \in Slots : AddInsert(s)
    \/ \E u \in users, song \in Songs : RemoveCheck(u.id, song)
    \/ \E s \in Slots : RemoveDelete(s)

SpecLibrary == InitRace /\ [][NextLibrary]_vars

\* searches logged for the accounts while time passes
NextHistory ==
    \/ \E k \in 1 .. MaxLog : Tick(k)
    \/ \E u \in Usernames, e \in Emails : Register(u, e, "Str0ng!Pass")
    \/ \E u \in users, q \in HistoryQueries : LogSearch(u.id, q)

SpecHistory == Init /\ [][NextHistory]_vars

\* searches by clients with and without a token, before and after the
\* access tokens expire
NextSearch ==
    \/ \E k \in 1 .. MaxClock : AtAccessExpiry(k) /\ Tick(k)
    \/ \E u \in Usernames, e \in Emails : Register(u, e, "Str0ng!Pass")
    \/ \E i \in Usernames \cup {"admin"}, p \in Passwords \ {"wrong"} : Authenticate(i, p)
    \/ \E tok \in issued \cup {Absent, Malformed}, q \in Queries,
          up \in {"ok", "empty", "error"} : SearchRequest(tok, q, up)

SpecSearch == Init /\ [][NextSearch]_vars

----------------------------------------------------------------------------
(* Vocabulary of the properties *)

TokenOf(jti) == CHOOSE t \in issued : t.claims.jti = jti

RefreshTokens == {t \in issued : t.claims.type = "refresh"}

AccessTokens == {t \in issued : t.claims.type = "access"}

\* the tokens authenticate returned
LoginTokens == {t \in issued : \E o \in origin : o.jti = t.claims.jti /\ o.from = 0}

\* the user row a token was made for, as it is stored now
OwnerRows(tok) ==
    {u \in users : \E o \in origin : o.jti = tok.claims.jti /\ o.user = u.id}

\* the jtis a marker was committed for, by one operation and by any
RevokedBy(op) == {m[1] : m \in {x \in marked : x[2] = op}}

Revoked == {m[1] : m \in marked}

\* the tokens a new pair was derived from
Rotated == {o.from : o \in {x \in origin : x.from # 0}}

Unexpired(tok) == now <= tok.claims.exp

\* a row for the marker is stored and CacheRepository.get would return it
MarkerVisible(jti) ==
    \E e \in cache :
       e.cache_key = BlacklistKey(jti) /\ now <= e.timestamp + e.ttl_minutes

----------------------------------------------------------------------------
(* Token rotation *)

\* C1: for an active user, the refresh token authenticate returned passes
\* refresh_tokens while it is unexpired and no marker was committed for it
\* (verification returns its claims and the user lookup finds the active
\* row), and once refresh_tokens has committed its marker every call with it
\* is refused at verification, the 401.
C1_RefreshOnceThenUnauthorized ==
    \A t \in RefreshTokens \cap LoginTokens :
       /\ t.claims.jti \in RevokedBy("refresh")
            => verify_token(t, "refresh", cache, now) = NoClaims
       /\ (t.claims.jti \notin Revoked /\ Unexpired(t))
            => /\ verify_token(t, "refresh", cache, now) = t.claims
               /\ t.claims.sub # ""
               /\ (\A u \in OwnerRows(t) : u.is_active)
                    => FoundActive(get_by_username(users, t.claims.sub))

\* a login refresh token was exchanged for a pair, answered 200, and is now
\* refused while it is still unexpired
C1_Witness ==
    /\ resp = Token("refresh")
    /\ \E t \in RefreshTokens \cap LoginTokens :
          /\ t.claims.jti \in Rotated
          /\ t.claims.jti \in RevokedBy("refresh")
          /\ Unexpired(t)
          /\ verify_token(t, "refresh", cache, now) = NoClaims

\* C2: a pair derived from a refresh token exists only if refresh_tokens has
\* committed the marker of that token, also when the request stopped between
\* two of its steps; the marker is visible while the token is unexpired.
C2_RevokeBeforeIssue ==
    \A j \in Rotated :
       /\ j \in RevokedBy("refresh")
       /\ Unexpired(TokenOf(j)) => MarkerVisible(j)

\* a request committed the marker and stopped before it made the pair
C2_Witness ==
    /\ \E j \in RevokedBy("refresh") : j \notin Rotated
    /\ \A s \in Slots : slots[s] = Idle
    /\ Rotated # {}

\* C3: a refresh token that refresh_tokens or logout revoked is not accepted
\* as a refresh token while it is unexpired, whatever the cache methods did.
C3_RevokedNeverAccepted ==
    \A t \in RefreshTokens :
       (t.claims.jti \in Revoked /\ Unexpired(t))
         => verify_token(t, "refresh", cache, now) = NoClaims

\* C4: the marker of a revoked refresh token is visible at every time up to
\* and including the exp of the token: its row carries the refresh lifetime
\* in minutes plus 60 as TTL and lapses no earlier than the token.
C4_MarkerOutlivesToken ==
    \A t \in RefreshTokens :
       t.claims.jti \in Revoked
         => /\ Unexpired(t) => cache_get(cache, BlacklistKey(t.claims.jti), now) # None
            /\ \A e \in cache :
                 e.cache_key = BlacklistKey(t.claims.jti)
                   => /\ e.ttl_minutes = REFRESH_TOKEN_EXPIRE_DAYS * 24 * 60 + 60
                      /\ e.timestamp + e.ttl_minutes >= t.claims.exp

\* the last minute of a revoked token, its marker still stored
C4_Witness ==
    \E t \in RefreshTokens :
       /\ t.claims.jti \in Revoked
       /\ now = t.claims.exp
       /\ now > 0
       /\ is_blacklisted(cache, t.claims.jti, now)

\* the requests refresh_tokens is working on hold the token
InFlight(tok) == \E s \in Slots : slots[s].op = "refresh" /\ slots[s].tok = tok

\* the tokens derived from the token with this jti
Children(jti) == {o \in origin : o.from = jti}

\* C5: once logout has committed the marker of a refresh token, a
\* refresh_tokens call with the token is refused at verification, the 401:
\* no such call gets past it and no token is derived from the token any more.
C5_LogoutThenUnauthorized ==
    /\ [](\A t \in RefreshTokens :
            t.claims.jti \in RevokedBy("logout")
              => verify_token(t, "refresh", cache, now) = NoClaims)
    /\ [][\A t \in RefreshTokens :
            (t.claims.jti \in RevokedBy("logout") /\ ~InFlight(t))
              => /\ ~InFlight(t)'
                 /\ Children(t.claims.jti)' = Children(t.claims.jti)]_vars

\* logout answered 204 for a token that is unexpired and now refused
C5_Witness ==
    /\ resp = Response("logout", 204, "")
    /\ \E t \in RefreshTokens :
          /\ t.claims.jti \in RevokedBy("logout")
          /\ t.claims.jti \notin RevokedBy("refresh")
          /\ Unexpired(t)
          /\ verify_token(t, "refresh", cache, now) = NoClaims

----------------------------------------------------------------------------
(* Accounts and identity *)

\* C6: refresh_tokens with a correctly signed, unexpired, unrevoked refresh
\* token of a user who was deactivated gets past verification, finds the
\* inactive row and answers 403 without issuing a token.
C6_DeactivatedUserForbidden ==
    /\ [](\A t \in RefreshTokens :
            (/\ \E u \in OwnerRows(t) : ~u.is_active
             /\ Unexpired(t)
             /\ ~MarkerVisible(t.claims.jti))
              => /\ verify_token(t, "refresh", cache, now) = t.claims
                 /\ t.claims.sub # ""
                 /\ ~FoundActive(get_by_username(users, t.claims.sub)))
    /\ [][\A s \in Slots :
            (/\ slots[s].op = "refresh" /\ slots[s].pc = "lookup"
             /\ \E u \in OwnerRows(slots[s].tok) : ~u.is_active
             /\ slots'[s] # slots[s])
              => /\ resp' = Response("refresh", 403, "User not found or inactive")
                 /\ slots'[s] = Idle
                 /\ issued' = issued]_vars

\* the 403 of refresh_tokens, with a valid token of a deactivated user around
C6_Witness ==
    /\ resp = Response("refresh", 403, "User not found or inactive")
    /\ \E t \in RefreshTokens \cap LoginTokens :
          /\ \E u \in OwnerRows(t) : ~u.is_active
          /\ SignatureOk(t, SECRET_KEY)
          /\ Unexpired(t)
          /\ t.claims.jti \notin Revoked

\* C7: the access token authenticate returned for an active user, presented
\* to get_current_user before its expiry, is accepted and resolves to the
\* stored row of that user.
C7_GuardResolvesOwner ==
    \A t \in AccessTokens \cap LoginTokens :
       \A u \in OwnerRows(t) :
          (u.is_active /\ Unexpired(t))
            => get_current_user(t, users, cache, now)
                 = [Response("guard", 200, "") EXCEPT !.user = u.id]

\* C8: both tokens authenticate returns carry the identity of the user: sub
\* is the id, the username claim is the username, the scopes are the role.
C8_PairCarriesIdentity ==
    \A t \in LoginTokens :
       \A u \in OwnerRows(t) :
          /\ t.claims.sub = u.id
          /\ t.claims.username = u.username
          /\ t.claims.scopes = <<u.role>>

----------------------------------------------------------------------------
(* Token verification *)

\* C9: a refresh token is refused by the access-token guard with the 401 of
\* verify_access_token, and an access token is refused by the verification
\* of refresh_tokens and logout: no request works on it and no marker is
\* ever written for it.
C9_KindsNotInterchangeable ==
    /\ \A t \in RefreshTokens :
          get_current_user(t, users, cache, now)
            = Response("guard", 401, "Invalid or expired access token")
    /\ \A t \in AccessTokens :
          /\ verify_token(t, "refresh", cache, now) = NoClaims
          /\ t.claims.jti \notin Revoked
          /\ \A e \in cache : e.cache_key # BlacklistKey(t.claims.jti)
          /\ \A s \in Slots : slots[s].tok # t

\* logout answered 401 while every refresh token handed out was still good:
\* it was given an access token
C9_Witness ==
    /\ resp = Response("logout", 401, "Invalid refresh token")
    /\ clock = 0
    /\ marked = {}
    /\ AccessTokens # {}
    /\ \A t \in RefreshTokens : verify_token(t, "refresh", cache, now) = t.claims

\* C10: verify_token returns the claims of a token exactly when its signature
\* verifies under the server key, it is not expired, its type claim is the
\* expected kind and no marker is visible for its jti; otherwise it returns
\* the one failure value.
C10_VerifyTokenExact ==
    \A tok \in Presentable(issued) \cup {Absent}, k \in Kinds :
       /\ verify_token(tok, k, cache, now)
            = IF /\ SignatureOk(tok, SECRET_KEY)
                 /\ now <= tok.claims.exp
                 /\ tok.claims.type = k
                 /\ ~MarkerVisible(tok.claims.jti)
              THEN tok.claims ELSE NoClaims
       /\ SignatureOk(tok, SECRET_KEY) => tok.claims # NoClaims

\* a token in each case at once: accepted, expired, revoked, and the guard
\* has just refused one
C10_Witness ==
    /\ resp = Response("guard", 401, "Invalid or expired access token")
    /\ \E t \in issued : verify_token(t, t.claims.type, cache, now) = t.claims
    /\ \E t \in issued : SignatureOk(t, SECRET_KEY) /\ ~Unexpired(t)
    /\ \E t \in issued : Unexpired(t) /\ MarkerVisible(t.claims.jti)

\* what a client makes of the tokens it holds without the server key
Counterfeit(iss) ==
    {TamperType(t) : t \in iss} \cup {TamperExp(t) : t \in iss}
        \cup {Forge(t) : t \in iss}

\* C11: a token signed with another key, or altered after signing, is
\* refused by verify_token for both kinds and yields no jti, whatever expiry
\* it claims: the guard answers 401, refresh_tokens and logout answer 401,
\* no request works on it and no marker is written for it.
C11_CounterfeitRejected ==
    /\ [](\A tok \in Counterfeit(issued) :
            /\ \A k \in Kinds : verify_token(tok, k, cache, now) = NoClaims
            /\ extract_jti(tok) = 0
            /\ blacklist_token(cache, tok, "refresh", now) = cache
            /\ get_current_user(tok, users, cache, now)
                 = Response("guard", 401, "Invalid or expired access token")
            /\ \A s \in Slots : slots[s].tok # tok)
    /\ [][\A tok \in Counterfeit(issued) :
            /\ RefreshVerify(tok)
                 => /\ resp' = Response("refresh", 401,
                                        "Invalid or expired refresh token")
                    /\ UNCHANGED <<cache, issued, slots>>
            /\ LogoutVerify(tok)
                 => /\ resp' = Response("logout", 401, "Invalid refresh token")
                    /\ UNCHANGED <<cache, issued, slots>>]_vars

\* an access token has expired, its copy with the expiry pushed out claims to
\* be good, and the guard has refused it
C11_Witness ==
    \E t \in AccessTokens :
       /\ ~Unexpired(t)
       /\ Unexpired(TamperExp(t))
       /\ resp = get_current_user(TamperExp(t), users, cache, now)
       /\ resp = Response("guard", 401, "Invalid or expired access token")

\* a token verify_token has a reason to refuse as kind k: it does not
\* decode, it is expired, it is of the other type, or its marker is visible
Refusable(tok, k) ==
    \/ tok = Malformed
    \/ ~Unexpired(tok)
    \/ tok.claims.type # k
    \/ MarkerVisible(tok.claims.jti)

\* C12: each of verify_access_token, refresh_tokens and logout answers a
\* malformed, an expired, a wrong-type and a revoked token alike: the 401
\* and the one detail of the operation.
C12_SameRefusal ==
    /\ [](\A tok \in issued \cup {Malformed} :
            Refusable(tok, "access")
              => get_current_user(tok, users, cache, now)
                   = Response("guard", 401, "Invalid or expired access token"))
    /\ [][\A tok \in issued \cup {Malformed} :
            Refusable(tok, "refresh")
              => /\ RefreshVerify(tok)
                      => resp' = Response("refresh", 401,
                                          "Invalid or expired refresh token")
                 /\ LogoutVerify(tok)
                      => resp' = Response("logout", 401,
                                          "Invalid refresh token")]_vars

\* refresh_tokens has answered 401 with an expired token, a revoked one that
\* is unexpired and one of the other type all at hand
C12_Witness ==
    /\ resp = Response("refresh", 401, "Invalid or expired refresh token")
    /\ \E t \in issued : ~Unexpired(t)
    /\ \E t \in RefreshTokens : Unexpired(t) /\ MarkerVisible(t.claims.jti)
    /\ \E t \in AccessTokens : Unexpired(t)

\* the access token made together with a refresh token: the jti drawn just
\* before its own
PairAccess(r) == {a \in AccessTokens : a.claims.jti + 1 = r.claims.jti}

\* C13: once logout or refresh_tokens has revoked the refresh token of a
\* pair, verify_access_token still accepts the access token of the pair at
\* every time up to its own expiry.
C13_AccessSurvivesRevocation ==
    \A r \in RefreshTokens :
       r.claims.jti \in Revoked
         => \A a \in PairAccess(r) :
               Unexpired(a) => verify_token(a, "access", cache, now) = a.claims

\* logout has answered 204 and the access token of the pair is in its last
\* minute
C13_Witness ==
    /\ resp = Response("logout", 204, "")
    /\ \E r \in RefreshTokens :
          /\ r.claims.jti \in RevokedBy("logout")
          /\ MarkerVisible(r.claims.jti)
          /\ \E a \in PairAccess(r) : now = a.claims.exp /\ now > 0

----------------------------------------------------------------------------
(* Registration and login *)

\* C14: register with a username or an email a stored user has answers 409,
\* creates no user and leaves the stored users as they are.
C14_DuplicateConflict ==
    [][\A u \in Usernames \cup {"admin"}, e \in Emails :
         (\E x \in users : x.username = u \/ x.email = e)
           => (Register(u, e, "Str0ng!Pass")
                 => /\ resp'.op = "register"
                    /\ resp'.status = 409
                    /\ users' = users)]_vars

\* register has answered 409 for the email of a user registered before
C14_Witness ==
    /\ resp = Response("register", 409, "Email already registered")
    /\ \E x \in users : x.email \in Emails /\ x.role = "user"

\* C18: a successful register stores exactly one new row, with the submitted
\* username and email, role "user" and is_active true; its password_hash is
\* not the plaintext, verifies against the submitted password and against no
\* other; the UserRead returned is that row without password or hash.
C18_RegisterStoresUser ==
    [][\A u \in Usernames \cup {"admin"}, e \in Emails :
         (Register(u, e, "Str0ng!Pass") /\ resp'.status = 201)
           => \E n \in users' \ users :
                 /\ users' = users \cup {n}
                 /\ n.username = u /\ n.email = e
                 /\ n.role = "user" /\ n.is_active
                 /\ n.password_hash # [plain |-> "Str0ng!Pass"]
                 /\ verify_password("Str0ng!Pass", n.password_hash)
                 /\ \A q \in Passwords \ {"Str0ng!Pass"} :
                      ~verify_password(q, n.password_hash)
                 /\ resp'.user = n.id
                 /\ DOMAIN UserRead(n)
                      = {"id", "username", "email", "role", "is_active"}]_vars

\* register has answered 201 for the user it stored
C18_Witness ==
    /\ resp.op = "register" /\ resp.status = 201
    /\ \E n \in users :
          /\ n.id = resp.user
          /\ n.role = "user"
          /\ verify_password("Str0ng!Pass", n.password_hash)

\* the stored users the identifier names, by email or by username
Named(i) == {x \in users : x.email = i \/ x.username = i}

\* C19: authenticate answers an identifier that names no user and a wrong
\* password for a user that exists alike: the same 401 and detail, no
\* token, nothing stored.
C19_LoginFailureUniform ==
    [][\A i \in Identifiers, p \in Passwords :
         (\A x \in Named(i) : x.password_hash # hash_password(p))
           => (Authenticate(i, p)
                 => /\ resp' = Response("login", 401,
                                        "Incorrect username/email or password")
                    /\ UNCHANGED <<users, cache, issued>>)]_vars

\* the 401 of login, with a registered user next to identifiers that name
\* nobody
C19_Witness ==
    /\ resp = Response("login", 401, "Incorrect username/email or password")
    /\ \E i \in Identifiers : Named(i) # {}
    /\ \E i \in Identifiers : Named(i) = {}
    /\ issued = {}

\* C20: authenticate answers 403 exactly when the credentials are right and
\* the user is not active, and then it issues no token.
C20_InactiveForbidden ==
    [][\A i \in Identifiers, p \in Passwords :
         Authenticate(i, p)
           => /\ resp'.status = 403
                   <=> \E x \in Named(i) :
                          x.password_hash = hash_password(p) /\ ~x.is_active
              /\ resp'.status = 403
                   => /\ resp' = Response("login", 403, "Inactive user")
                      /\ UNCHANGED <<users, cache, issued>>]_vars

\* login has answered 403 and the deactivated user holds no token
C20_Witness ==
    /\ resp = Response("login", 403, "Inactive user")
    /\ \E x \in users : ~x.is_active
    /\ issued = {}

----------------------------------------------------------------------------
(* Requests that run at the same time *)

\* C15: no two stored users share a username, an email or an id, also when
\* register calls interleave.
C15_UsersUnique ==
    \A u1 \in users, u2 \in users :
       u1 # u2 => /\ u1.username # u2.username
                  /\ u1.email # u2.email
                  /\ u1.id # u2.id

\* two registrations went past their checks, one created its user and the
\* other was refused by the table
C15_Witness ==
    /\ resp = Response("register", 500, "Internal server error")
    /\ \E u \in users : u.role = "user"
    /\ \A s \in Slots : slots[s] = Idle

\* the stored users refuse the row of the registration in slot s
Collides(s) ==
    \E x \in users : x.username = slots[s].username \/ x.email = slots[s].email

\* C16: a register call that passed its checks and then finds its username
\* or email taken by a call that ran in between creates nothing and answers
\* 409.
C16_RaceLoserConflict ==
    [][\A s \in Slots :
         (/\ slots[s].op = "register" /\ slots[s].pc = "create"
          /\ Collides(s)
          /\ slots'[s] = Idle)
           => /\ users' = users
              /\ resp'.status = 409]_vars

\* C17: a refresh_tokens call whose revocation check runs once a marker for
\* the token is committed answers 401 and goes no further, so the calls that
\* return a pair for one token all ran the check before the first commit,
\* at most one per worker; when they are done every refresh with the token
\* answers 401.
C17_ConcurrentRefresh ==
    /\ [](\A t \in RefreshTokens :
            /\ t.claims.jti \in Revoked
                 => verify_token(t, "refresh", cache, now) = NoClaims
            /\ Cardinality(Children(t.claims.jti)) <= 2 * Len(slots))
    /\ [][\A t \in RefreshTokens :
            t.claims.jti \in Revoked
              => /\ RefreshVerify(t)
                      => /\ resp' = Response("refresh", 401,
                                             "Invalid or expired refresh token")
                         /\ slots' = slots
                 /\ \A s \in Slots :
                      (slots'[s].op = "refresh" /\ slots'[s].tok = t)
                        => slots[s].op = "refresh" /\ slots[s].tok = t]_vars

\* two calls with one token both returned a pair, and the token is refused
\* now
C17_Witness ==
    \E t \in RefreshTokens :
       /\ Cardinality({o \in Children(t.claims.jti) :
                         TokenOf(o.jti).claims.type = "refresh"}) = 2
       /\ ~InFlight(t)
       /\ verify_token(t, "refresh", cache, now) = NoClaims
       /\ resp = Token("refresh")

----------------------------------------------------------------------------
\* C21: get_current_user_optional never passes a refusal on: with no token,
\* with a token verify_access_token refuses and with a token whose user does
\* not resolve the route gets None (no 401, no 403); it gets a user only
\* for a token that verifies as an access token, and that user is a row
NoIdentity(tok) ==
    \/ tok = Absent
    \/ verify_token(tok, "access", cache, now) = NoClaims
    \/ verify_token(tok, "access", cache, now).user_id \notin {u.id : u \in users}

C21_OptionalSwallowsFailure ==
    [][\A tok \in Presentable(issued) \cup {Absent} :
         GetCurrentUserOptional(tok) =>
           /\ resp'.op = "optional" /\ resp'.status = 200
           /\ NoIdentity(tok) => resp'.user = ""
           /\ resp'.user # "" =>
                /\ verify_token(tok, "access", cache, now) # NoClaims
                /\ resp'.user \in {u.id : u \in users}]_vars

\* the guard has let a request through with no identity although it came
\* with an access token this server signed, and another with a user
C21_Witness ==
    /\ resp.op = "optional" /\ resp.user = ""
    /\ \E tok \in AccessTokens : NoIdentity(tok)
    /\ \E tok \in AccessTokens : ~NoIdentity(tok)

\* C22: for a request with an access token that verifies and resolves to a
\* user row, require_admin answers 403 "Admin access required" when the role
\* stored in that row now is no admin marker and hands the row on when it
\* is one, whatever the role was when the token was made
AdminMarkers == {"admin", "superuser"}

C22_AdminByStoredRole ==
    [][\A tok \in Presentable(issued) : \A u \in users :
         (/\ verify_token(tok, "access", cache, now) # NoClaims
          /\ verify_token(tok, "access", cache, now).user_id = u.id)
           => (RequireAdmin(tok) =>
                 resp' = IF u.role \in AdminMarkers
                         THEN [Response("admin", 200, "") EXCEPT !.user = u.id]
                         ELSE Response("admin", 403, "Admin access required"))]_vars

\* the row that was created with the admin role has lost it, and the request
\* with a token that resolves to it was answered 403
C22_Witness ==
    /\ resp = Response("admin", 403, "Admin access required")
    /\ \E tok \in AccessTokens : \E u \in users :
         /\ verify_token(tok, "access", cache, now).user_id = u.id
         /\ u.id = AdminId
         /\ u.role \notin AdminMarkers

----------------------------------------------------------------------------
(* Token making *)

\* C23: what create_access_token makes decodes with type "access" and what
\* create_refresh_token makes decodes with type "refresh", for every user
\* id, username and scope list; every call that issues tokens issues one of
\* each type, and no two issued tokens carry the same jti
ScopeLists == {<<>>, <<"user">>, <<"admin">>, <<"user", "admin">>}

C23_TypeAndJti ==
    /\ [](/\ \A i \in UserIds \cup Usernames, n \in UserIds \cup Usernames,
               sc \in ScopeLists, j \in 1 .. 2 :
               /\ decode_token(create_access_token(i, n, sc, FreshJti(issued, j), now),
                               now).type = "access"
               /\ decode_token(create_refresh_token(i, n, sc, FreshJti(issued, j), now),
                               now).type = "refresh"
          /\ \A t1, t2 \in issued : t1.claims.jti = t2.claims.jti => t1 = t2)
    /\ [][issued' # issued =>
            \E a, r \in issued' \ issued :
               /\ issued' = issued \cup {a, r}
               /\ decode_token(a, now).type = "access"
               /\ decode_token(r, now).type = "refresh"
               /\ a.claims.jti # r.claims.jti
               /\ \A t \in issued : t.claims.jti \notin {a.claims.jti, r.claims.jti}]_vars

\* a login and a rotation have each returned a pair
C23_Witness ==
    /\ \E o \in origin : o.from = 0
    /\ \E o \in origin : o.from # 0
    /\ Cardinality({t.claims.jti : t \in issued}) = 4

----------------------------------------------------------------------------
(* Registration bodies *)

\* C24: a register request whose password has fewer than 8 characters or no
\* uppercase letter, lowercase letter, digit or special character, or whose
\* username has fewer than 3 or more than 50 characters, is answered 422 and
\* creates no user
C24_InvalidBodyRejected ==
    [][\A u \in BodyUsernames, e \in BodyEmails, p \in BodyPasswords :
         (\/ ~validate_password(Chars(p))
          \/ Len(Chars(u)) < 3
          \/ Len(Chars(u)) > 50)
           => (RegisterRequest(u, e, p) =>
                 resp'.status = 422 /\ users' = users)]_vars

\* C25: the expires_in of the 200 of a login and of a rotation is the
\* lifetime of the access token returned with it, exp minus iat in seconds,
\* and that is access_token_expire_minutes * 60
Seconds(minutes) == minutes * 60

C25_ExpiresInIsLifetime ==
    [][issued' # issued =>
         /\ resp'.op \in {"login", "refresh"} /\ resp'.status = 200
         /\ \A a \in issued' \ issued :
              a.claims.type = "access" =>
                /\ resp'.expires_in = Seconds(a.claims.exp) - Seconds(a.claims.iat)
                /\ resp'.expires_in = Seconds(ACCESS_TOKEN_EXPIRE_MINUTES)]_vars

\* a login and a rotation have answered with their pairs, not at the start
\* of the clock
C25_Witness ==
    /\ resp.op = "refresh" /\ resp.status = 200 /\ resp.expires_in > 0
    /\ \E a \in AccessTokens : a.claims.iat > 0
    /\ \E o \in origin : o.from = 0

----------------------------------------------------------------------------
(* Revocation markers *)

\* C26: every marker in the cache is keyed by the jti of a refresh token
\* this server signed; a marker is written only by a request that holds such
\* a token after its own verify_token call accepted it; and a refresh or
\* logout call whose token verify_token refuses (forged, altered, of the
\* access type, expired, revoked) starts no work and writes nothing
Markers(c) == {e \in c : e.cache_key.prefix = "blacklist"}

C26_MarkersOnlyForVerified ==
    /\ [](\A e \in Markers(cache) :
            \E t \in RefreshTokens : t.claims.jti = e.cache_key.jti)
    /\ [][\A e \in Markers(cache') \ Markers(cache) :
            \E s \in Slots :
               /\ slots[s].op \in {"refresh", "logout"}
               /\ slots[s].pc = "blacklist"
               /\ slots[s].tok \in RefreshTokens
               /\ slots[s].tok.claims.jti = e.cache_key.jti]_vars
    /\ [][\A tok \in Presentable(issued) :
            (\/ tok \notin RefreshTokens
             \/ ~Unexpired(tok)
             \/ MarkerVisible(tok.claims.jti))
              => ((RefreshVerify(tok) \/ LogoutVerify(tok)) =>
                    /\ resp'.status = 401
                    /\ cache' = cache /\ slots' = slots /\ marked' = marked)]_vars

\* a token was revoked, and a later call with an expired token was refused
C26_Witness ==
    /\ Markers(cache) # {}
    /\ resp.op \in {"refresh", "logout"} /\ resp.status = 401
    /\ \E t \in RefreshTokens : ~Unexpired(t)

----------------------------------------------------------------------------
(* Accounts that change *)

\* C27: the pair a rotation returns is made for the account the rotated
\* token was made for (the same user id), whatever was registered, renamed,
\* deleted or deactivated in between
C27_ChainKeepsAccount ==
    \A o \in origin : \A p \in origin :
       (o.from # 0 /\ p.jti = o.from) => o.user = p.user

\* C28: no string is the username of one user and the email of another, so
\* the identifier of a login names at most one account
C28_IdentifierNamesOneAccount ==
    \A u \in users : \A v \in users :
       u.id # v.id => u.username # v.email

----------------------------------------------------------------------------
(* Guards and the active flag *)

\* C29: whichever guard a route sits behind, the user it hands to the
\* handler is active when the request is served; a request with the
\* unexpired access token of a deactivated user gets no user
AnyGuard(tok) ==
    \/ GetCurrentUser(tok)
    \/ GetUserId(tok)
    \/ GetCurrentActiveUser(tok)
    \/ RequireAdmin(tok)
    \/ GetCurrentUserOptional(tok)

C29_GuardsYieldActiveUsers ==
    [][\A tok \in Presentable(issued) \cup {Absent} :
         AnyGuard(tok) =>
           \A u \in users : resp'.user = u.id => u.is_active]_vars

----------------------------------------------------------------------------
(* Refused calls *)

\* C30: a rotation or logout that is refused leaves everything as it was: a
\* 401 at the verification and a 403 at the user lookup write no marker,
\* issue no token and change no user row, and the token of a call refused
\* with 403 has no rotation marker unless another rotation of it wrote one
\* (one that is about to issue its pair, or has issued it)
Untouched ==
    /\ cache' = cache /\ marked' = marked
    /\ issued' = issued /\ origin' = origin
    /\ users' = users

RotatedElsewhere(s) ==
    \/ Children(slots[s].tok.claims.jti) # {}
    \/ \E r \in Slots \ {s} :
          /\ slots[r].op = "refresh" /\ slots[r].pc = "issue"
          /\ slots[r].tok = slots[s].tok

C30_RefusedCallChangesNothing ==
    /\ [][\A tok \in issued \cup {Malformed} :
            ((RefreshVerify(tok) \/ LogoutVerify(tok))
               /\ slots' = slots /\ resp'.status = 401) => Untouched]_vars
    /\ [][\A s \in Slots :
            (RefreshLookup(s) /\ resp'.status = 403 /\ slots'[s] = Idle) =>
               /\ Untouched
               /\ <<slots[s].tok.claims.jti, "refresh">> \in marked'
                    => RotatedElsewhere(s)]_vars

\* a rotation was refused with 403 for the account switched off, its token
\* is unexpired and has no marker, while another token was revoked before
C30_Witness ==
    /\ resp = Response("refresh", 403, "User not found or inactive")
    /\ \E t \in RefreshTokens :
         /\ Unexpired(t) /\ t.claims.jti \notin Revoked
         /\ \A u \in users : ~u.is_active
    /\ Revoked # {}

----------------------------------------------------------------------------
(* Revocation leaves the other tokens alone *)

\* C31: the write of a successful rotation or logout leaves exactly one
\* marker row for the jti of the presented token and changes no other row;
\* every other issued token is accepted or refused as before, as access and
\* as refresh token, and the pair a rotation returns is accepted
SameVerdict(t, c1, c2) ==
    \A k \in Kinds : verify_token(t, k, c1, now) = verify_token(t, k, c2, now)

C31_OneMarkerOthersUntouched ==
    /\ [][\A s \in Slots :
            (RefreshBlacklist(s) \/ LogoutBlacklist(s)) =>
               /\ Cardinality({e \in cache' :
                     e.cache_key = [prefix |-> "blacklist",
                                    jti |-> slots[s].tok.claims.jti,
                                    name |-> ""]}) = 1
               /\ \A e \in cache' :
                     e.cache_key.jti # slots[s].tok.claims.jti => e \in cache
               /\ \A e \in cache :
                     e.cache_key.jti # slots[s].tok.claims.jti => e \in cache'
               /\ \A t \in issued :
                     t # slots[s].tok => SameVerdict(t, cache, cache')]_vars
    /\ [][\A s \in Slots :
            RefreshIssue(s) =>
               /\ cache' = cache
               /\ \A t \in issued' \ issued :
                     verify_token(t, t.claims.type, cache', now) = t.claims]_vars

\* two logins, the refresh token of one revoked by logout, and the tokens
\* of the other login still accepted
C31_Witness ==
    /\ resp = Response("logout", 204, "")
    /\ \E t \in RefreshTokens :
         /\ t.claims.jti \in RevokedBy("logout")
         /\ verify_token(t, "refresh", cache, now) = NoClaims
    /\ \E a \in AccessTokens, r \in RefreshTokens :
         /\ {a.claims.jti, r.claims.jti} \cap Revoked = {}
         /\ verify_token(a, "access", cache, now) = a.claims
         /\ verify_token(r, "refresh", cache, now) = r.claims

----------------------------------------------------------------------------
(* The cache store *)

\* C32: get(key) returns the stored data exactly when a row for key exists
\* and now <= timestamp + ttl_minutes * 60000 in milliseconds; for a row past
\* that instant it deletes the row and returns None; for a key with no row
\* it returns None and changes nothing
Row(c, key) == {e \in c : e.cache_key = key}

Live(e, t) == Ms(t) <= Ms(e.timestamp) + e.ttl_minutes * 60000

C32_GetHonoursTtl ==
    /\ [][\A key \in Keys :
            GetRead(key) =>
               /\ Row(cache, key) = {} =>
                    /\ resp' = Response("get", 200, None)
                    /\ cache' = cache /\ slots' = slots
               /\ \A e \in Row(cache, key) :
                    /\ Live(e, now) =>
                         /\ resp' = Response("get", 200, e.data)
                         /\ cache' = cache /\ slots' = slots
                    /\ ~Live(e, now) =>
                         \E s \in Slots :
                            /\ slots'[s].op = "get" /\ slots'[s].pc = "invalidate"
                            /\ slots'[s].key = key]_vars
    /\ [][\A s \in Slots :
            GetInvalidate(s) =>
               /\ resp' = Response("get", 200, None)
               /\ Row(cache', slots[s].key) = {}
               /\ \A e \in cache : e.cache_key # slots[s].key => e \in cache']_vars

\* a get has returned the data of a row at the last instant of its lifetime,
\* later than the start
C32_Witness ==
    /\ resp.op = "get" /\ resp.detail # None
    /\ clock > 0
    /\ \E e \in cache :
         /\ e.data = resp.detail
         /\ now = e.timestamp + e.ttl_minutes

\* C33: after set(key, data, ttl) a get of the key returns data at every
\* instant up to the end of the new lifetime, counted from this set whether
\* or not the key had a row; the key has one row, and the rows of the other
\* keys are as before
C33_SetThenGet ==
    /\ [](\A e1, e2 \in cache : e1.cache_key = e2.cache_key => e1 = e2)
    /\ [][\A key \in Keys, d \in Data, ttl \in Ttls :
            Set(key, d, ttl) =>
               /\ Row(cache', key) =
                    {[cache_key |-> key, data |-> d, timestamp |-> now,
                      ttl_minutes |-> ttl]}
               /\ \A k \in clock .. MaxClock + 1 :
                    Instant(k) <= now + ttl =>
                       cache_get(cache', key, Instant(k)) = d
               /\ \A e \in cache : e.cache_key # key => e \in cache'
               /\ \A e \in cache' : e.cache_key # key => e \in cache]_vars

\* a key was set again later with other data, while a row of another key
\* from the start is still there
C33_Witness ==
    /\ resp.op = "set"
    /\ \E e \in cache : e.timestamp > 0 /\ e.timestamp = now
    /\ \E e \in cache : e.timestamp = 0
    /\ Cardinality(cache) = 2

----------------------------------------------------------------------------
(* Cache cleanup *)

\* C34: when cleanup_expired returns, no row that is expired at the instant
\* the call read the clock is left in the cache, and the number returned is
\* the number of rows the call deleted
C34_CleanupLeavesNoExpired ==
    [][\A s \in Slots :
         (CleanupPass(s) /\ slots'[s] = Idle) =>
            /\ \A e \in cache' : ~(Ms(slots[s].now_ms) > Ms(e.timestamp) + e.ttl_minutes * 60000)
            /\ resp'.count = slots[s].deleted_total + Cardinality(cache \ cache')]_vars

\* C35: a row that cleanup_expired or the delete-on-read of get removes is
\* expired when it is removed; no marker goes before its lifetime has ended
C35_OnlyExpiredRemoved ==
    [][\A s \in Slots :
         (GetInvalidate(s) \/ CleanupPass(s)) =>
            \A e \in cache \ cache' : ~Live(e, now)]_vars

\* C36: every pass of the loop of cleanup_expired deletes at least one row or
\* ends the loop, and every call returns
C36_CleanupTerminates ==
    /\ [][\A s \in Slots :
            CleanupPass(s) =>
               \/ slots'[s] = Idle
               \/ Cardinality(cache') < Cardinality(cache)]_vars
    /\ \A s \in 1 .. MaxReq :
          (slots[s].op = "cleanup") ~> (slots[s].op # "cleanup")

\* a call has returned after passes that deleted two rows and a last pass
\* that found the cache empty
C36_Witness ==
    /\ resp.op = "cleanup" /\ resp.count = 2
    /\ cache = {}
    /\ \A s \in Slots : slots[s] = Idle

----------------------------------------------------------------------------
(* Library and search history *)

\* C37: however add and remove calls interleave, the library holds at most
\* one row per (user, song); an add of a pair that has a row creates
\* nothing; and the song is listed exactly when the last call that completed
\* for the pair was an add
C37_LibraryOneRowPerPair ==
    /\ [](/\ \A r1, r2 \in user_library :
                (r1.user_id = r2.user_id /\ r1.song_id = r2.song_id) => r1 = r2
          /\ (resp.op = "library_add" /\ resp.status = 201) =>
                \E r \in list_by_user(user_library, resp.user) : r.song_id = resp.detail
          /\ (resp.op = "library_remove" /\ resp.status = 204) =>
                \A r \in list_by_user(user_library, resp.user) : r.song_id # resp.detail)
    /\ [][\A u \in users, song \in Songs :
            (AddCheck(u.id, song) /\ get_entry(user_library, u.id, song) # {})
               => user_library' = user_library]_vars

\* C38: the history holds at most one row per (user, query); a first call
\* of log_search creates the row with count 1, a later call adds exactly 1
\* to count and sets timestamp to the time of the call, and the rows of other
\* users and queries stay as they were
C38_LogSearchCounts ==
    /\ [](\A r1, r2 \in search_history :
             (r1.user_id = r2.user_id /\ r1.query = r2.query) => r1 = r2)
    /\ [][\A u \in users, q \in HistoryQueries :
            LogSearch(u.id, q) =>
              LET old == {r \in search_history : r.user_id = u.id /\ r.query = q}
                  new == {r \in search_history' : r.user_id = u.id /\ r.query = q}
              IN  /\ old = {} =>
                        \E r \in new : new = {r} /\ r.count = 1 /\ r.timestamp = Ms(now)
                  /\ \A e \in old :
                        \E r \in new : /\ new = {r} /\ r.id = e.id
                                       /\ r.count = e.count + 1
                                       /\ r.timestamp = Ms(now)
                  /\ search_history' \ new = search_history \ old]_vars

\* a second call for a pair, later than the first, next to a row of another
\* user
C38_Witness ==
    /\ resp.op = "log_search"
    /\ \E r \in search_history :
          /\ r.user_id = resp.user /\ r.query = resp.detail
          /\ r.count = 2 /\ r.timestamp = Ms(now) /\ r.timestamp > 0
    /\ \E r \in search_history : r.user_id # resp.user

\* C39: a search request with a valid access token of an active user that
\* has a result to give, from the cache or from upstream, answers 200 and
\* leaves a row for the query in that user's history; a request with no
\* token or with a token the guard refuses answers likewise and leaves the
\* history as it was
C39_AuthenticatedSearchRecorded ==
    [][\A tok \in issued \cup {Absent, Malformed}, q \in Queries,
          up \in {"ok", "empty", "error"} :
         (/\ SearchRequest(tok, q, up)
          /\ (cache_get(cache, SearchKey(q), now) # None \/ up # "error"))
         => LET current_user == get_current_user_optional(tok, users, cache, now)
            IN  /\ resp'.status = 200
                /\ IF current_user.user # ""
                   THEN \E r \in search_history' :
                           r.user_id = current_user.user /\ r.query = q
                   ELSE search_history' = search_history]_vars

====
